---- MODULE Spec2Model ----
(***************************************************************************)
(* Model of src/FULLSEN.h: the Modbus RTU exchange with the ES-PH-SOIL-01  *)
(* sensor over a MAX485 transceiver (discovery, read, RS485 direction      *)
(* control, CRC16) and the trimmed mean avergearray of the pH samples.     *)
(*                                                                         *)
(* The sketch targets an AVR Arduino (SoftwareSerial.h, EEPROM.h, analog   *)
(* pins A0..A2, a 10 bit ADC read against 5.0 V), where int is 16 bits.    *)
(***************************************************************************)
EXTENDS Integers, Sequences, FiniteSets, TLC

\* ------------------------------------------------------------------------
\* Program constants
\* ------------------------------------------------------------------------

\* slave_ids_to_try[] (line 41)
slave_ids_to_try == <<1, 2, 3, 16, 32, 48, 64, 80>>

\* for (int i = 0; i < 8; i++) in testESCommunication (line 91)
NumCandidates == 8

\* byte ES_SLAVE_ID = 0x02 (line 39)
DefaultSlaveID == 2

\* tryESSlaveID waits (millis() - startTime) < 500 (line 135)
ProbeTimeout == 500

\* readESPHSoilSensor waits (millis() - startTime) < 1000 (line 190)
ReadTimeout == 1000

\* delay(10) inside both receive waits (lines 136, 191)
PollDelay == 10

\* int expectedBytes = 7 (line 188)
expectedBytes == 7

\* for (int attempt = 0; attempt < 3; attempt++) (line 326)
MaxAttempts == 3

\* width of int on the AVR target: int phRaw (line 210)
IntBits == 16

\* function code 0x03 written into request[1] (lines 118, 157)
ReadHolding == 3

\* delay(10) between setRS485Mode(true) and the write in tryESSlaveID (line 125)
ProbeSettleDelay == 10

\* delay(10) between flush and setRS485Mode(false) in tryESSlaveID (line 129)
ProbeHoldDelay == 10

\* delay(5) between setRS485Mode(true) and the write in readESPHSoilSensor
\* (line 175)
ReadSettleDelay == 5

\* delay(5) between flush and setRS485Mode(false) in readESPHSoilSensor
\* (line 182)
ReadHoldDelay == 5

\* #define ArrayLenth 40 (line 17)
ArrayLenth == 40

\* for (int i = 0; i < 10; i++) of the pH sampling in readSensors (line 268)
SamplesPerCall == 10

\* ------------------------------------------------------------------------
\* Bounds of the model
\* ------------------------------------------------------------------------

\* most bytes the model lets the receive buffer hold (the library holds 64)
MaxRx == 8

\* length of the sample windows avergearray is applied to
MaxLen == 5

\* most samples the pH sampling loop writes to pHArray in a run of the model
MaxWrites == 85

\* passes of a clearing loop (available(), read(): a few microseconds) the
\* model lets pass between two bytes of the 9600 baud line (1.04 ms apart,
\* esSerial.begin(9600), line 76), at least
PassesPerByte == 2

\* ------------------------------------------------------------------------
\* Bit arithmetic on naturals
\* ------------------------------------------------------------------------

RECURSIVE Pow2(_)
Pow2(n) == IF n = 0 THEN 1 ELSE 2 * Pow2(n - 1)

RECURSIVE BitXor(_, _)
BitXor(a, b) ==
  IF a = 0 THEN b
  ELSE IF b = 0 THEN a
  ELSE ((a + b) % 2) + 2 * BitXor(a \div 2, b \div 2)

RECURSIVE BitOr(_, _)
BitOr(a, b) ==
  IF a = 0 THEN b
  ELSE IF b = 0 THEN a
  ELSE (IF (a % 2) + (b % 2) > 0 THEN 1 ELSE 0) + 2 * BitOr(a \div 2, b \div 2)

\* the value of a 16 bit pattern stored into a (signed, two's complement) int
ToInt(n) ==
  LET m == n % Pow2(IntBits)
  IN  IF m >= Pow2(IntBits - 1) THEN m - Pow2(IntBits) ELSE m

\* ------------------------------------------------------------------------
\* calculateModbusCRC (lines 239-257)
\* ------------------------------------------------------------------------

\* the inner loop (lines 246-253), i passes left: if the LSB is set shift
\* right and XOR 0xA001, else just shift right
RECURSIVE CrcBitsMut(_, _)
CrcBitsMut(crc, i) ==
  IF i = 0 THEN crc
  ELSE IF crc % 2 /= 0 THEN CrcBitsMut(BitXor(crc \div 2, 33800), i - 1)
  ELSE CrcBitsMut(crc \div 2, i - 1)

RECURSIVE CrcBits(_, _)
CrcBits(crc, i) ==
  IF i = 0 THEN crc
  ELSE IF crc % 2 /= 0 THEN CrcBits(BitXor(crc \div 2, 40961), i - 1)
  ELSE CrcBits(crc \div 2, i - 1)

\* the outer loop (lines 243-254) from byte pos on
RECURSIVE CrcFrom(_, _, _, _)
CrcFrom(crc, data, pos, length) ==
  IF pos >= length THEN crc
  ELSE CrcFrom(CrcBits(BitXor(crc, data[pos + 1]), 8), data, pos + 1, length)

calculateModbusCRC(data, length) == CrcFrom(65535, data, 0, length)

BuildRequestMut(slave_id) ==
  LET head == <<slave_id, ReadHolding, 0, 0, 0, 1>>
      crc  == calculateModbusCRC(head, 6)
  IN  head \o <<(crc \div 256) % 256, crc % 256>>

\* the request array both tryESSlaveID (lines 118-121) and
\* readESPHSoilSensor (lines 157-162) build
BuildRequest(slave_id) ==
  LET head == <<slave_id, ReadHolding, 0, 0, 0, 1>>
      crc  == calculateModbusCRC(head, 6)
  IN  head \o <<crc % 256, (crc \div 256) % 256>>

\* ------------------------------------------------------------------------
\* State
\* ------------------------------------------------------------------------

VARIABLES
  pc,             \* the statement the firmware is at
  retTo,          \* where the setRS485Mode call in progress returns to
  transmit,       \* the transmit argument of the setRS485Mode call in progress
  de, re,         \* levels of ES_DE_PIN and ES_RE_PIN
  rx,             \* esSerial's receive buffer, oldest byte first
  request,        \* byte request[8] of the attempt in progress
  wire,           \* the bytes esSerial has written in the attempt in progress
  elapsed,        \* millis() - startTime in the receive wait
  ES_SLAVE_ID,    \* line 39
  esPHSoilValue,  \* line 38, held as the int it is 1/100 of (phRaw / 100.0)
  i,              \* loop index of testESCommunication
  test_id,        \* slave_id argument of the probe in progress
  attempt,        \* loop index of the retry loop of readSensors
  found,          \* what the last tryESSlaveID returned
  probed,         \* history: the slave ids probed in this discovery, in order
  idBefore,       \* history: ES_SLAVE_ID when this discovery started
  heardIn,        \* history: the probed ids in whose probe, after its clearing, a byte arrived
  valBefore,      \* history: esPHSoilValue when this read attempt started
  outcome,        \* history: what this read attempt reported
  events,         \* history: the transmit/receive events of this attempt
  deadlineHit,    \* history: the read wait was left with fewer than 7 bytes
  allZero,        \* history: this call of readSensors began with esPHSoilValue 0 and each of its attempts so far decoded 0
  partial,        \* history: the buffer held bytes when this attempt reported its timeout
  stale,          \* history: how many of those bytes are still in the buffer, at its head
  response,       \* history: byte response[7] (line 195) as the readBytes of this attempt filled it
  settled,        \* history: the ms of delay() since the direction was last switched or the request flushed
  arr,            \* the window avergearray is applied to
  avg,            \* what avergearray computed for arr
  pHArray,        \* line 18, a function on 0 .. ArrayLenth-1
  pHArrayIndex,   \* line 19
  sample_i,       \* loop index of the pH sampling loop of readSensors
  samples,        \* history: every sample written to pHArray, in order
  credit          \* the passes a clearing loop has made since a byte last arrived, up to PassesPerByte

vars == <<pc, retTo, transmit, de, re, rx, request, wire, elapsed, ES_SLAVE_ID,
          esPHSoilValue, i, test_id, attempt, found, probed,
          idBefore, heardIn, valBefore, outcome, events, deadlineHit,
          allZero, partial, stale, settled, response,
          arr, avg, pHArray, pHArrayIndex, sample_i, samples, credit>>

\* the variables of the pH sample buffer, those of the averaging filter,
\* and the history variables of a discovery and of a call of readSensors
ringVars == <<pHArray, pHArrayIndex, sample_i, samples>>
avgVars == <<arr, avg, pHArray, pHArrayIndex, sample_i, samples>>
histVars == <<probed, idBefore, heardIn, valBefore, outcome,
              deadlineHit>>
cycleHist == <<allZero, partial, stale, settled, response>>

NoAvg == [done |-> FALSE, amount |-> 0, divisor |-> 1]

\* the state after the global initialisers (lines 18-41) have run; the two
\* direction pins have not been driven yet
InitTransport ==
  /\ pc = "boot"
  /\ retTo = "boot"
  /\ transmit = FALSE
  /\ de = "LOW"
  /\ re = "LOW"
  /\ rx = <<>>
  /\ request = <<>>
  /\ wire = <<>>
  /\ elapsed = 0
  /\ ES_SLAVE_ID = DefaultSlaveID
  /\ esPHSoilValue = 0
  /\ i = 0
  /\ test_id = 0
  /\ attempt = 0
  /\ found = FALSE
  /\ probed = <<>>
  /\ idBefore = DefaultSlaveID
  /\ heardIn = {}
  /\ valBefore = 0
  /\ outcome = "none"
  /\ events = <<>>
  /\ deadlineHit = FALSE
  /\ allZero = FALSE
  /\ partial = FALSE
  /\ stale = 0
  /\ settled = 0
  /\ response = <<>>
  /\ credit = PassesPerByte

\* int pHArray[ArrayLenth]; int pHArrayIndex = 0;  (lines 18-19): globals
\* are zero-initialised
InitSamples ==
  /\ pHArray = [k \in 0..(ArrayLenth - 1) |-> 0]
  /\ pHArrayIndex = 0
  /\ sample_i = 0
  /\ samples = <<>>

Init ==
  /\ InitTransport
  /\ InitSamples
  /\ arr = <<>>
  /\ avg = NoAvg

\* ------------------------------------------------------------------------
\* The bus: bytes the MAX485 hands to esSerial
\* ------------------------------------------------------------------------

\* the bytes a remote device may send next, given what the buffer holds:
\* replies of 7 bytes (address, function, byte count, two data bytes, two
\* CRC bytes) from the right or a wrong address, with the right or a wrong
\* function code, carrying 0x0000, 0x02BC or 0x8000, then trailing bytes.
\* The wrong address is 0x7F, which no candidate has; the wrong function
\* code is 0x83, the exception reply to function 0x03.
NextBytes(buf) ==
  LET n == Len(buf) + 1
  IN  CASE n = 1 -> {ES_SLAVE_ID, 127}
        [] n = 2 -> IF buf[1] = 127 THEN {ReadHolding}
                    ELSE {ReadHolding, 131}
        [] n = 3 -> {2}
        [] n = 4 -> IF buf[2] = ReadHolding THEN {0, 2, 128} ELSE {2}
        [] n = 5 -> IF buf[4] = 2 THEN {188} ELSE {0}
        [] OTHER -> {0}

\* the receiver output is enabled only while RE is low
ReceiverEnabled == re = "LOW"

\* the statements of a probe that follow its clearing loop
ProbePcs == {"try_build", "try_txen", "try_settle", "try_write", "try_flush",
             "try_hold", "try_rxen", "try_start", "try_wait", "try_check"}

InProbe == pc \in ProbePcs \/ (pc \in {"mode_de", "mode_re"} /\ retTo \in ProbePcs)

\* the clearing loops: while (esSerial.available()) esSerial.read();
ClearPcs == {"try_clear", "read_clear", "read_drain"}

\* one byte arrives and the receive interrupt stores it; in a clearing loop
\* no sooner than PassesPerByte passes after the byte before it
BusByte ==
  /\ ReceiverEnabled
  /\ Len(rx) < MaxRx
  /\ pc \in ClearPcs => credit >= PassesPerByte
  /\ credit' = IF pc \in ClearPcs THEN 0 ELSE credit
  /\ \E b \in NextBytes(rx) : rx' = Append(rx, b)
  /\ heardIn' = IF InProbe THEN heardIn \cup {test_id} ELSE heardIn
  /\ UNCHANGED <<pc, retTo, transmit, de, re, request, wire, elapsed,
                 ES_SLAVE_ID, esPHSoilValue, i, test_id, attempt, found, probed, idBefore, valBefore, outcome, events,
                 deadlineHit>>
  /\ UNCHANGED avgVars /\ UNCHANGED cycleHist

\* ------------------------------------------------------------------------
\* setRS485Mode (lines 227-236)
\* ------------------------------------------------------------------------

PinLevelMut(t) == "HIGH"

\* HIGH for transmit, LOW for receive
PinLevel(t) == IF t THEN "HIGH" ELSE "LOW"

\* digitalWrite(dePin, ...)
SetModeDE ==
  /\ pc = "mode_de"
  /\ de' = PinLevel(transmit)
  /\ pc' = "mode_re"
  /\ UNCHANGED <<retTo, transmit, re, rx, request, wire, elapsed, ES_SLAVE_ID,
                 esPHSoilValue, i, test_id, attempt, found, events>>
  /\ UNCHANGED histVars /\ UNCHANGED avgVars /\ UNCHANGED credit /\ UNCHANGED cycleHist

\* digitalWrite(rePin, ...) and the return
SetModeRE ==
  /\ pc = "mode_re"
  /\ re' = PinLevel(transmit)
  /\ pc' = retTo
  /\ events' = Append(events, IF transmit THEN "txen" ELSE "rxen")
  /\ UNCHANGED <<retTo, transmit, de, rx, request, wire, elapsed, ES_SLAVE_ID,
                 esPHSoilValue, i, test_id, attempt, found>>
  /\ UNCHANGED histVars /\ UNCHANGED avgVars /\ UNCHANGED credit /\ settled' = 0 /\ UNCHANGED <<allZero, partial, stale, response>>

\* the call setRS485Mode(ES_DE_PIN, ES_RE_PIN, t) from the statement at
\* from, returning to the statement at to
CallSetMode(from, t, to) ==
  /\ pc = from
  /\ pc' = "mode_de"
  /\ transmit' = t
  /\ retTo' = to

\* ------------------------------------------------------------------------
\* setupModbusSensors (lines 68-84)
\* ------------------------------------------------------------------------

\* pinMode of both pins, then setRS485Mode(false)
SetupModbusSensors ==
  /\ CallSetMode("boot", FALSE, "setup_begin")
  /\ UNCHANGED <<de, re, rx, request, wire, elapsed, ES_SLAVE_ID,
                 esPHSoilValue, i, test_id, attempt, found, events>>
  /\ UNCHANGED histVars /\ UNCHANGED avgVars /\ UNCHANGED credit /\ UNCHANGED cycleHist

\* the entry of testESCommunication: i = 0
EnterTest(from) ==
  /\ pc = from
  /\ pc' = "test_loop"
  /\ i' = 0
  /\ probed' = <<>>
  /\ idBefore' = ES_SLAVE_ID
  /\ heardIn' = {}
  /\ UNCHANGED <<retTo, transmit, de, re, rx, request, wire, elapsed,
                 ES_SLAVE_ID, esPHSoilValue, test_id, attempt, found,
                 valBefore, outcome, events, deadlineHit>>
  /\ UNCHANGED avgVars /\ UNCHANGED credit /\ UNCHANGED cycleHist

\* esSerial.begin(9600); delay(100); testESCommunication()
SetupTest == EnterTest("setup_begin")

\* ------------------------------------------------------------------------
\* testESCommunication (lines 87-107)
\* ------------------------------------------------------------------------

\* i < 8: test_id = slave_ids_to_try[i]; tryESSlaveID(test_id) is entered
TestNext ==
  /\ pc = "test_loop"
  /\ i < NumCandidates
  /\ test_id' = slave_ids_to_try[i + 1]
  /\ probed' = Append(probed, slave_ids_to_try[i + 1])
  /\ events' = <<>>
  /\ wire' = <<>>
  /\ request' = <<>>
  /\ pc' = "try_clear"
  /\ UNCHANGED <<retTo, transmit, de, re, rx, elapsed, ES_SLAVE_ID,
                 esPHSoilValue, i, attempt, found, idBefore, heardIn, valBefore, outcome, deadlineHit>>
  /\ UNCHANGED avgVars /\ UNCHANGED credit /\ UNCHANGED cycleHist

\* i = 8: "No ES-PH-SOIL-01 response found", return
TestFail ==
  /\ pc = "test_loop"
  /\ ~(i < NumCandidates)
  /\ pc' = "test_done"
  /\ UNCHANGED <<retTo, transmit, de, re, rx, request, wire, elapsed,
                 ES_SLAVE_ID, esPHSoilValue, i, test_id, attempt, found, events>>
  /\ UNCHANGED histVars /\ UNCHANGED avgVars /\ UNCHANGED credit /\ UNCHANGED cycleHist

TestFoundMut ==
  /\ pc = "try_ret"
  /\ found
  /\ ES_SLAVE_ID' = test_id
  /\ pc' = "test_loop"
  /\ i' = i + 1
  /\ request' = <<>>
  /\ wire' = <<>>
  /\ elapsed' = 0
  /\ UNCHANGED <<retTo, transmit, de, re, rx, esPHSoilValue, test_id, attempt,
                 found, events>>
  /\ UNCHANGED histVars /\ UNCHANGED avgVars /\ UNCHANGED credit /\ UNCHANGED cycleHist

\* tryESSlaveID returned true: ES_SLAVE_ID = test_id; return
TestFound ==
  /\ pc = "try_ret"
  /\ found
  /\ ES_SLAVE_ID' = test_id
  /\ pc' = "test_done"
  /\ request' = <<>>
  /\ wire' = <<>>
  /\ elapsed' = 0
  /\ UNCHANGED <<retTo, transmit, de, re, rx, esPHSoilValue, i, test_id,
                 attempt, found, events>>
  /\ UNCHANGED histVars /\ UNCHANGED avgVars /\ UNCHANGED credit /\ UNCHANGED cycleHist

TestMissMut ==
  /\ pc = "try_ret"
  /\ ~found
  /\ ES_SLAVE_ID' = test_id
  /\ pc' = "test_loop"
  /\ i' = i + 1
  /\ request' = <<>>
  /\ wire' = <<>>
  /\ elapsed' = 0
  /\ UNCHANGED <<retTo, transmit, de, re, rx, esPHSoilValue, test_id, attempt,
                 found, events>>
  /\ UNCHANGED histVars /\ UNCHANGED avgVars /\ UNCHANGED credit /\ UNCHANGED cycleHist

\* tryESSlaveID returned false: delay(500); i++
TestMiss ==
  /\ pc = "try_ret"
  /\ ~found
  /\ pc' = "test_loop"
  /\ i' = i + 1
  /\ request' = <<>>
  /\ wire' = <<>>
  /\ elapsed' = 0
  /\ UNCHANGED <<retTo, transmit, de, re, rx, ES_SLAVE_ID, esPHSoilValue,
                 test_id, attempt, found, events>>
  /\ UNCHANGED histVars /\ UNCHANGED avgVars /\ UNCHANGED credit /\ UNCHANGED cycleHist

\* testESCommunication has returned to the sketch; its locals are gone
TestReturn ==
  /\ pc = "test_done"
  /\ pc' = "idle"
  /\ i' = 0
  /\ test_id' = 0
  /\ found' = FALSE
  /\ events' = <<>>
  /\ probed' = <<>>
  /\ idBefore' = ES_SLAVE_ID
  /\ heardIn' = {}
  /\ UNCHANGED <<retTo, transmit, de, re, rx, request, wire, elapsed,
                 ES_SLAVE_ID, esPHSoilValue, attempt, valBefore,
                 outcome, deadlineHit>>
  /\ UNCHANGED avgVars /\ UNCHANGED credit /\ UNCHANGED cycleHist

\* ------------------------------------------------------------------------
\* Statements tryESSlaveID and readESPHSoilSensor have in common
\* ------------------------------------------------------------------------

\* of n bytes at the head of the buffer, those left once k bytes were read
Unread(n, k) == IF n > k THEN n - k ELSE 0

\* while (esSerial.available()) esSerial.read();  (lines 113-115, 152-154,
\* 220-222): one pass of the loop, or its exit to the statement at to
ClearBuffer(at, to) ==
  /\ pc = at
  /\ IF rx /= <<>>
       THEN /\ rx' = Tail(rx)
            /\ stale' = Unread(stale, 1)
            /\ credit' = IF credit < PassesPerByte THEN credit + 1 ELSE credit
            /\ pc' = pc
       ELSE /\ rx' = rx
            /\ stale' = stale
            /\ credit' = PassesPerByte
            /\ pc' = to

\* byte request[] = {id, 0x03, ...}; the CRC goes into request[6..7]
MakeRequest(at, id, to) ==
  /\ pc = at
  /\ request' = BuildRequest(id)
  /\ pc' = to

\* one byte of the request leaves esSerial; after the 8th the loop is left
WriteByte(at, to) ==
  /\ pc = at
  /\ Len(wire) < 8
  /\ wire' = Append(wire, request[Len(wire) + 1])
  /\ events' = Append(events, "write")
  /\ pc' = IF Len(wire) + 1 = 8 THEN to ELSE pc

\* esSerial.flush()
Flush(at, to) ==
  /\ pc = at
  /\ events' = Append(events, "flush")
  /\ settled' = 0
  /\ pc' = to

\* unsigned long startTime = millis();
StartWait(at, to) ==
  /\ pc = at
  /\ elapsed' = 0
  /\ events' = Append(events, "wait")
  /\ pc' = to

\* ------------------------------------------------------------------------
\* tryESSlaveID (lines 110-146)
\* ------------------------------------------------------------------------

\* lines 113-115
TryClear ==
  /\ ClearBuffer("try_clear", "try_build")
  /\ UNCHANGED <<retTo, transmit, de, re, request, wire, elapsed, ES_SLAVE_ID,
                 esPHSoilValue, i, test_id, attempt, found, events>>
  /\ UNCHANGED histVars /\ UNCHANGED avgVars /\ UNCHANGED <<allZero, partial, settled, response>>

\* lines 118-121
TryBuild ==
  /\ MakeRequest("try_build", test_id, "try_txen")
  /\ UNCHANGED <<retTo, transmit, de, re, rx, wire, elapsed, ES_SLAVE_ID,
                 esPHSoilValue, i, test_id, attempt, found, events>>
  /\ UNCHANGED histVars /\ UNCHANGED avgVars /\ UNCHANGED credit /\ UNCHANGED cycleHist

\* line 124: setRS485Mode(..., true)
TryTxEnable ==
  /\ CallSetMode("try_txen", TRUE, "try_settle")
  /\ UNCHANGED <<de, re, rx, request, wire, elapsed, ES_SLAVE_ID,
                 esPHSoilValue, i, test_id, attempt, found, events>>
  /\ UNCHANGED histVars /\ UNCHANGED avgVars /\ UNCHANGED credit /\ UNCHANGED cycleHist

\* line 125: delay(10)
TrySettle ==
  /\ pc = "try_settle"
  /\ pc' = "try_write"
  /\ UNCHANGED <<retTo, transmit, de, re, rx, request, wire, elapsed,
                 ES_SLAVE_ID, esPHSoilValue, i, test_id, attempt, found, events>>
  /\ UNCHANGED histVars /\ UNCHANGED avgVars /\ UNCHANGED credit /\ settled' = settled + ProbeSettleDelay
  /\ UNCHANGED <<allZero, partial, stale, response>>

\* line 127: esSerial.write(request, 8), byte by byte
TryWrite ==
  /\ WriteByte("try_write", "try_flush")
  /\ UNCHANGED <<retTo, transmit, de, re, rx, request, elapsed, ES_SLAVE_ID,
                 esPHSoilValue, i, test_id, attempt, found>>
  /\ UNCHANGED histVars /\ UNCHANGED avgVars /\ UNCHANGED credit /\ UNCHANGED cycleHist

\* line 128
TryFlush ==
  /\ Flush("try_flush", "try_hold")
  /\ UNCHANGED <<retTo, transmit, de, re, rx, request, wire, elapsed,
                 ES_SLAVE_ID, esPHSoilValue, i, test_id, attempt, found>>
  /\ UNCHANGED histVars /\ UNCHANGED avgVars /\ UNCHANGED credit /\ UNCHANGED <<allZero, partial, stale, response>>

\* line 129: delay(10)
TryHold ==
  /\ pc = "try_hold"
  /\ pc' = "try_rxen"
  /\ UNCHANGED <<retTo, transmit, de, re, rx, request, wire, elapsed,
                 ES_SLAVE_ID, esPHSoilValue, i, test_id, attempt, found, events>>
  /\ UNCHANGED histVars /\ UNCHANGED avgVars /\ UNCHANGED credit /\ settled' = settled + ProbeHoldDelay
  /\ UNCHANGED <<allZero, partial, stale, response>>

\* line 131: setRS485Mode(..., false)
TryRxEnable ==
  /\ CallSetMode("try_rxen", FALSE, "try_start")
  /\ UNCHANGED <<de, re, rx, request, wire, elapsed, ES_SLAVE_ID,
                 esPHSoilValue, i, test_id, attempt, found, events>>
  /\ UNCHANGED histVars /\ UNCHANGED avgVars /\ UNCHANGED credit /\ UNCHANGED cycleHist

\* line 134
TryStart ==
  /\ StartWait("try_start", "try_wait")
  /\ UNCHANGED <<retTo, transmit, de, re, rx, request, wire, ES_SLAVE_ID,
                 esPHSoilValue, i, test_id, attempt, found>>
  /\ UNCHANGED histVars /\ UNCHANGED avgVars /\ UNCHANGED credit /\ UNCHANGED cycleHist

\* lines 135-137: the loop test, and delay(10) when it holds
TryWait ==
  /\ pc = "try_wait"
  /\ IF Len(rx) = 0 /\ elapsed < ProbeTimeout
       THEN /\ elapsed' = elapsed + PollDelay
            /\ pc' = pc
       ELSE /\ elapsed' = 0
            /\ pc' = "try_check"
  /\ UNCHANGED <<retTo, transmit, de, re, rx, request, wire, ES_SLAVE_ID,
                 esPHSoilValue, i, test_id, attempt, found, events>>
  /\ UNCHANGED histVars /\ UNCHANGED avgVars /\ UNCHANGED credit /\ UNCHANGED cycleHist

\* lines 139-145: return esSerial.available() > 0
TryCheck ==
  /\ pc = "try_check"
  /\ found' = (Len(rx) > 0)
  /\ pc' = "try_ret"
  /\ UNCHANGED <<retTo, transmit, de, re, rx, request, wire, elapsed,
                 ES_SLAVE_ID, esPHSoilValue, i, test_id, attempt, events>>
  /\ UNCHANGED histVars /\ UNCHANGED avgVars /\ UNCHANGED credit /\ UNCHANGED cycleHist

\* ------------------------------------------------------------------------
\* readSensors, the retry loop (lines 325-330)
\* ------------------------------------------------------------------------

\* the sketch calls readSensors; the analog sampling (lines 262-323) does
\* not touch the transport; attempt = 0
ReadSensors ==
  /\ pc = "idle"
  /\ attempt' = 0
  /\ pc' = "retry_loop"
  /\ UNCHANGED <<retTo, transmit, de, re, rx, request, wire, elapsed,
                 ES_SLAVE_ID, esPHSoilValue, i, test_id, found,
                 events>>
  /\ UNCHANGED histVars /\ UNCHANGED avgVars /\ UNCHANGED credit /\ allZero' = (esPHSoilValue = 0)
  /\ UNCHANGED <<partial, stale, settled, response>>

\* attempt < 3: readESPHSoilSensor() is entered
RetryNext ==
  /\ pc = "retry_loop"
  /\ attempt < MaxAttempts
  /\ pc' = "read_clear"
  /\ valBefore' = esPHSoilValue
  /\ outcome' = "none"
  /\ deadlineHit' = FALSE
  /\ events' = <<>>
  /\ wire' = <<>>
  /\ request' = <<>>
  /\ UNCHANGED <<retTo, transmit, de, re, rx, elapsed, ES_SLAVE_ID,
                 esPHSoilValue, i, test_id, attempt, found, probed, idBefore,
                 heardIn>>
  /\ UNCHANGED avgVars /\ UNCHANGED credit /\ UNCHANGED cycleHist

\* what is left of a call of readSensors once it has returned
LeaveReadSensors ==
  /\ pc' = "idle"
  /\ attempt' = 0
  /\ request' = <<>>
  /\ wire' = <<>>
  /\ events' = <<>>
  /\ valBefore' = 0
  /\ outcome' = "none"
  /\ deadlineHit' = FALSE
  /\ allZero' = FALSE
  /\ partial' = FALSE
  /\ response' = <<>>

\* attempt = 3: the loop is left and readSensors returns
RetryExhausted ==
  /\ pc = "retry_loop"
  /\ ~(attempt < MaxAttempts)
  /\ LeaveReadSensors
  /\ UNCHANGED <<retTo, transmit, de, re, rx, elapsed, ES_SLAVE_ID,
                 esPHSoilValue, i, test_id, found, probed, idBefore, heardIn>>
  /\ UNCHANGED avgVars /\ UNCHANGED credit /\ UNCHANGED <<stale, settled>>

RetryBreakMut ==
  /\ pc = "read_ret"
  /\ esPHSoilValue >= 0
  /\ LeaveReadSensors
  /\ UNCHANGED <<retTo, transmit, de, re, rx, elapsed, ES_SLAVE_ID,
                 esPHSoilValue, i, test_id, found, probed, idBefore, heardIn>>
  /\ UNCHANGED avgVars /\ UNCHANGED credit /\ UNCHANGED <<stale, settled>>

\* line 328: if (esPHSoilValue > 0) break; and readSensors returns
RetryBreak ==
  /\ pc = "read_ret"
  /\ esPHSoilValue > 0
  /\ LeaveReadSensors
  /\ UNCHANGED <<retTo, transmit, de, re, rx, elapsed, ES_SLAVE_ID,
                 esPHSoilValue, i, test_id, found, probed, idBefore, heardIn>>
  /\ UNCHANGED avgVars /\ UNCHANGED credit /\ UNCHANGED <<stale, settled>>

\* lines 328-329 and 326: no break; delay(1000); attempt++
RetryAgain ==
  /\ pc = "read_ret"
  /\ ~(esPHSoilValue > 0)
  /\ pc' = "retry_loop"
  /\ attempt' = attempt + 1
  /\ request' = <<>>
  /\ wire' = <<>>
  /\ events' = <<>>
  /\ valBefore' = 0
  /\ outcome' = "none"
  /\ deadlineHit' = FALSE
  /\ UNCHANGED <<retTo, transmit, de, re, rx, elapsed, ES_SLAVE_ID,
                 esPHSoilValue, i, test_id, found, probed, idBefore, heardIn>>
  /\ UNCHANGED avgVars /\ UNCHANGED credit /\ partial' = FALSE
  /\ response' = <<>>
  /\ UNCHANGED <<allZero, stale, settled>>

\* ------------------------------------------------------------------------
\* readESPHSoilSensor (lines 149-224)
\* ------------------------------------------------------------------------

\* lines 152-154
ReadClear ==
  /\ ClearBuffer("read_clear", "read_build")
  /\ UNCHANGED <<retTo, transmit, de, re, request, wire, elapsed, ES_SLAVE_ID,
                 esPHSoilValue, i, test_id, attempt, found, events>>
  /\ UNCHANGED histVars /\ UNCHANGED avgVars /\ UNCHANGED <<allZero, partial, settled, response>>

ReadBuildMut ==
  /\ MakeRequest("read_build", DefaultSlaveID, "read_txen")
  /\ UNCHANGED <<retTo, transmit, de, re, rx, wire, elapsed, ES_SLAVE_ID,
                 esPHSoilValue, i, test_id, attempt, found, events>>
  /\ UNCHANGED histVars /\ UNCHANGED avgVars /\ UNCHANGED credit /\ UNCHANGED cycleHist

\* lines 157-162
ReadBuild ==
  /\ MakeRequest("read_build", ES_SLAVE_ID, "read_txen")
  /\ UNCHANGED <<retTo, transmit, de, re, rx, wire, elapsed, ES_SLAVE_ID,
                 esPHSoilValue, i, test_id, attempt, found, events>>
  /\ UNCHANGED histVars /\ UNCHANGED avgVars /\ UNCHANGED credit /\ UNCHANGED cycleHist

ReadTxEnableMut ==
  /\ pc = "read_txen"
  /\ pc' = "read_settle"
  /\ UNCHANGED <<retTo, transmit, de, re, rx, request, wire, elapsed,
                 ES_SLAVE_ID, esPHSoilValue, i, test_id, attempt, found,
                 events>>
  /\ UNCHANGED histVars /\ UNCHANGED avgVars /\ UNCHANGED credit /\ UNCHANGED cycleHist

\* line 174: setRS485Mode(..., true)
ReadTxEnable ==
  /\ CallSetMode("read_txen", TRUE, "read_settle")
  /\ UNCHANGED <<de, re, rx, request, wire, elapsed, ES_SLAVE_ID,
                 esPHSoilValue, i, test_id, attempt, found, events>>
  /\ UNCHANGED histVars /\ UNCHANGED avgVars /\ UNCHANGED credit /\ UNCHANGED cycleHist

ReadSettleMut ==
  /\ pc = "read_settle"
  /\ pc' = "read_write"
  /\ UNCHANGED <<retTo, transmit, de, re, rx, request, wire, elapsed,
                 ES_SLAVE_ID, esPHSoilValue, i, test_id, attempt, found, events>>
  /\ UNCHANGED histVars /\ UNCHANGED avgVars /\ UNCHANGED credit /\ UNCHANGED cycleHist

\* line 175: delay(5)
ReadSettle ==
  /\ pc = "read_settle"
  /\ pc' = "read_write"
  /\ UNCHANGED <<retTo, transmit, de, re, rx, request, wire, elapsed,
                 ES_SLAVE_ID, esPHSoilValue, i, test_id, attempt, found, events>>
  /\ UNCHANGED histVars /\ UNCHANGED avgVars /\ UNCHANGED credit /\ settled' = settled + ReadSettleDelay
  /\ UNCHANGED <<allZero, partial, stale, response>>

\* lines 177-180: esSerial.write(request[i]); delayMicroseconds(100)
ReadWrite ==
  /\ WriteByte("read_write", "read_flush")
  /\ UNCHANGED <<retTo, transmit, de, re, rx, request, elapsed, ES_SLAVE_ID,
                 esPHSoilValue, i, test_id, attempt, found>>
  /\ UNCHANGED histVars /\ UNCHANGED avgVars /\ UNCHANGED credit /\ UNCHANGED cycleHist

\* line 181
ReadFlush ==
  /\ Flush("read_flush", "read_hold")
  /\ UNCHANGED <<retTo, transmit, de, re, rx, request, wire, elapsed,
                 ES_SLAVE_ID, esPHSoilValue, i, test_id, attempt, found>>
  /\ UNCHANGED histVars /\ UNCHANGED avgVars /\ UNCHANGED credit /\ UNCHANGED <<allZero, partial, stale, response>>

\* line 182: delay(5)
ReadHold ==
  /\ pc = "read_hold"
  /\ pc' = "read_rxen"
  /\ UNCHANGED <<retTo, transmit, de, re, rx, request, wire, elapsed,
                 ES_SLAVE_ID, esPHSoilValue, i, test_id, attempt, found, events>>
  /\ UNCHANGED histVars /\ UNCHANGED avgVars /\ UNCHANGED credit /\ settled' = settled + ReadHoldDelay
  /\ UNCHANGED <<allZero, partial, stale, response>>

\* line 184: setRS485Mode(..., false)
ReadRxEnable ==
  /\ CallSetMode("read_rxen", FALSE, "read_start")
  /\ UNCHANGED <<de, re, rx, request, wire, elapsed, ES_SLAVE_ID,
                 esPHSoilValue, i, test_id, attempt, found, events>>
  /\ UNCHANGED histVars /\ UNCHANGED avgVars /\ UNCHANGED credit /\ UNCHANGED cycleHist

\* lines 187-188
ReadStart ==
  /\ StartWait("read_start", "read_wait")
  /\ UNCHANGED <<retTo, transmit, de, re, rx, request, wire, ES_SLAVE_ID,
                 esPHSoilValue, i, test_id, attempt, found>>
  /\ UNCHANGED histVars /\ UNCHANGED avgVars /\ UNCHANGED credit /\ UNCHANGED cycleHist

ReadWaitMut ==
  /\ pc = "read_wait"
  /\ IF Len(rx) < expectedBytes
       THEN /\ elapsed' = elapsed
            /\ pc' = pc
            /\ deadlineHit' = deadlineHit
       ELSE /\ elapsed' = 0
            /\ pc' = "read_check"
            /\ deadlineHit' = (Len(rx) < expectedBytes)
  /\ UNCHANGED <<retTo, transmit, de, re, rx, request, wire, ES_SLAVE_ID,
                 esPHSoilValue, i, test_id, attempt, found, events,
                 probed, idBefore, heardIn, valBefore, outcome>>
  /\ UNCHANGED avgVars /\ UNCHANGED credit /\ UNCHANGED cycleHist

\* lines 190-192: the loop test, and delay(10) when it holds
ReadWait ==
  /\ pc = "read_wait"
  /\ IF Len(rx) < expectedBytes /\ elapsed < ReadTimeout
       THEN /\ elapsed' = elapsed + PollDelay
            /\ pc' = pc
            /\ deadlineHit' = deadlineHit
       ELSE /\ elapsed' = 0
            /\ pc' = "read_check"
            /\ deadlineHit' = (Len(rx) < expectedBytes)
  /\ UNCHANGED <<retTo, transmit, de, re, rx, request, wire, ES_SLAVE_ID,
                 esPHSoilValue, i, test_id, attempt, found, events,
                 probed, idBefore, heardIn, valBefore, outcome>>
  /\ UNCHANGED avgVars /\ UNCHANGED credit /\ UNCHANGED cycleHist

\* line 196: readBytes(response, expectedBytes) stores the 7 oldest bytes
ReadBytes(buf) == SubSeq(buf, 1, expectedBytes)

ValidReplyMut(resp) ==
  /\ Len(resp) >= 5
  /\ resp[1] = ES_SLAVE_ID
  /\ resp[2] = ReadHolding
  /\ resp[3] = 2

\* line 209: bytesRead >= 5 && response[0] == ES_SLAVE_ID && response[1] == 0x03
ValidReply(resp) ==
  /\ Len(resp) >= 5
  /\ resp[1] = ES_SLAVE_ID
  /\ resp[2] = ReadHolding

\* line 210: int phRaw = (response[3] << 8) | response[4]
PhRaw(resp) == ToInt(BitOr(resp[4] * 256, resp[5]))

\* lines 194-214: 7 bytes are there and they pass the test of line 209:
\* esPHSoilValue = phRaw / 100.0
ReadDecoded ==
  /\ pc = "read_check"
  /\ Len(rx) >= expectedBytes
  /\ ValidReply(ReadBytes(rx))
  /\ esPHSoilValue' = PhRaw(ReadBytes(rx))
  /\ rx' = SubSeq(rx, expectedBytes + 1, Len(rx))
  /\ outcome' = "decoded"
  /\ pc' = "read_ret"
  /\ UNCHANGED <<retTo, transmit, de, re, request, wire, elapsed, ES_SLAVE_ID,
                 i, test_id, attempt, found, events, probed, idBefore, heardIn, valBefore, deadlineHit>>
  /\ UNCHANGED avgVars /\ UNCHANGED credit /\ allZero' = (allZero /\ PhRaw(ReadBytes(rx)) = 0)
  /\ stale' = Unread(stale, expectedBytes)
  /\ response' = ReadBytes(rx)
  /\ UNCHANGED <<partial, settled>>

ReadInvalidMut ==
  /\ pc = "read_check"
  /\ Len(rx) >= expectedBytes
  /\ ~ValidReply(ReadBytes(rx))
  /\ esPHSoilValue' = PhRaw(ReadBytes(rx))
  /\ rx' = SubSeq(rx, expectedBytes + 1, Len(rx))
  /\ outcome' = "invalid"
  /\ pc' = "read_ret"
  /\ UNCHANGED <<retTo, transmit, de, re, request, wire, elapsed, ES_SLAVE_ID,
                 i, test_id, attempt, found, events, probed, idBefore, heardIn, valBefore, deadlineHit>>
  /\ UNCHANGED avgVars /\ UNCHANGED credit /\ allZero' = FALSE
  /\ stale' = Unread(stale, expectedBytes)
  /\ response' = ReadBytes(rx)
  /\ UNCHANGED <<partial, settled>>

\* lines 194-207 and 215-217: 7 bytes are there and they fail the test of
\* line 209: "invalid response!"
ReadInvalid ==
  /\ pc = "read_check"
  /\ Len(rx) >= expectedBytes
  /\ ~ValidReply(ReadBytes(rx))
  /\ rx' = SubSeq(rx, expectedBytes + 1, Len(rx))
  /\ outcome' = "invalid"
  /\ pc' = "read_ret"
  /\ UNCHANGED <<retTo, transmit, de, re, request, wire, elapsed, ES_SLAVE_ID,
                 esPHSoilValue, i, test_id, attempt, found, events, probed,
                 idBefore, heardIn, valBefore, deadlineHit>>
  /\ UNCHANGED avgVars /\ UNCHANGED credit /\ allZero' = FALSE
  /\ stale' = Unread(stale, expectedBytes)
  /\ response' = ReadBytes(rx)
  /\ UNCHANGED <<partial, settled>>

ReadTimedOutMut ==
  /\ pc = "read_check"
  /\ ~(Len(rx) >= expectedBytes)
  /\ outcome' = "timeout"
  /\ esPHSoilValue' = 0
  /\ pc' = "read_drain"
  /\ UNCHANGED <<retTo, transmit, de, re, rx, request, wire, elapsed,
                 ES_SLAVE_ID, i, test_id, attempt, found, events, probed,
                 idBefore, heardIn, valBefore, deadlineHit>>
  /\ UNCHANGED avgVars /\ UNCHANGED credit /\ allZero' = FALSE
  /\ partial' = (Len(rx) > 0)
  /\ stale' = Len(rx)
  /\ UNCHANGED <<settled, response>>

\* lines 194 and 218-219: fewer than 7 bytes are there: "reading failed -
\* timeout!"
ReadTimedOut ==
  /\ pc = "read_check"
  /\ ~(Len(rx) >= expectedBytes)
  /\ outcome' = "timeout"
  /\ pc' = "read_drain"
  /\ UNCHANGED <<retTo, transmit, de, re, rx, request, wire, elapsed,
                 ES_SLAVE_ID, esPHSoilValue, i, test_id, attempt,
                 found, events, probed, idBefore, heardIn, valBefore,
                 deadlineHit>>
  /\ UNCHANGED avgVars /\ UNCHANGED credit /\ allZero' = FALSE
  /\ partial' = (Len(rx) > 0)
  /\ stale' = Len(rx)
  /\ UNCHANGED <<settled, response>>

ReadDrainMut ==
  /\ pc = "read_drain"
  /\ pc' = "read_ret"
  /\ UNCHANGED <<retTo, transmit, de, re, rx, request, wire, elapsed,
                 ES_SLAVE_ID, esPHSoilValue, i, test_id, attempt, found,
                 events>>
  /\ UNCHANGED histVars /\ UNCHANGED avgVars /\ UNCHANGED credit /\ UNCHANGED cycleHist

\* lines 220-222
ReadDrain ==
  /\ ClearBuffer("read_drain", "read_ret")
  /\ UNCHANGED <<retTo, transmit, de, re, request, wire, elapsed, ES_SLAVE_ID,
                 esPHSoilValue, i, test_id, attempt, found, events>>
  /\ UNCHANGED histVars /\ UNCHANGED avgVars /\ UNCHANGED <<allZero, partial, settled, response>>

\* ------------------------------------------------------------------------
\* The firmware with the bus
\* ------------------------------------------------------------------------

Next ==
  \/ BusByte
  \/ SetModeDE \/ SetModeRE
  \/ SetupModbusSensors \/ SetupTest
  \/ TestNext \/ TestFail \/ TestFound \/ TestMiss \/ TestReturn
  \/ TryClear \/ TryBuild \/ TryTxEnable \/ TrySettle \/ TryWrite
  \/ TryFlush \/ TryHold \/ TryRxEnable \/ TryStart \/ TryWait \/ TryCheck
  \/ ReadSensors \/ RetryNext \/ RetryExhausted \/ RetryBreak \/ RetryAgain
  \/ ReadClear \/ ReadBuild \/ ReadTxEnable \/ ReadSettle \/ ReadWrite
  \/ ReadFlush \/ ReadHold \/ ReadRxEnable \/ ReadStart \/ ReadWait
  \/ ReadDecoded \/ ReadInvalid \/ ReadTimedOut \/ ReadDrain

Spec == Init /\ [][Next]_vars

\* ------------------------------------------------------------------------
\* avergearray (lines 336-378)
\* ------------------------------------------------------------------------

\* lines 349-351: amount += arr[i] for i in 0 .. number-1
RECURSIVE SumToMut(_, _)
SumToMut(a, number) ==
  IF number <= 1 THEN 0 ELSE SumToMut(a, number - 1) + a[number]

RECURSIVE SumTo(_, _)
SumTo(a, number) == IF number = 0 THEN 0 ELSE SumTo(a, number - 1) + a[number]

RECURSIVE AvgScanMut(_, _, _, _, _, _)
AvgScanMut(a, k, number, min, max, amount) ==
  IF ~(k < number) THEN amount
  ELSE IF a[k + 1] < min
         THEN AvgScanMut(a, k + 1, number, a[k + 1], max, amount + min)
  ELSE IF a[k + 1] > max
         THEN AvgScanMut(a, k + 1, number, min, a[k + 1], amount + a[k + 1])
  ELSE AvgScanMut(a, k + 1, number, min, max, amount + a[k + 1])

\* lines 361-373: the loop from index k on; what amount is when it ends
RECURSIVE AvgScan(_, _, _, _, _, _)
AvgScan(a, k, number, min, max, amount) ==
  IF ~(k < number) THEN amount
  ELSE IF a[k + 1] < min
         THEN AvgScan(a, k + 1, number, a[k + 1], max, amount + min)
  ELSE IF a[k + 1] > max
         THEN AvgScan(a, k + 1, number, min, a[k + 1], amount + max)
  ELSE AvgScan(a, k + 1, number, min, max, amount + a[k + 1])

\* the double avergearray returns, as the fraction amount / divisor: 0 for
\* number <= 0, the truncated long quotient amount / number for number < 5,
\* else (double)amount / (number - 2)
avergearray(a, number) ==
  IF number <= 0
    THEN [done |-> TRUE, amount |-> 0, divisor |-> 1]
  ELSE IF number < 5
    THEN [done |-> TRUE, amount |-> SumTo(a, number) \div number, divisor |-> 1]
  ELSE [done |-> TRUE,
        amount |-> IF a[1] < a[2]
                     THEN AvgScan(a, 2, number, a[1], a[2], 0)
                     ELSE AvgScan(a, 2, number, a[2], a[1], 0),
        divisor |-> number - 2]

\* readings of the 10 bit ADC the windows are made of
Samples == {0, 1, 512, 1023}

\* the windows avergearray is applied to: every window of up to MaxLen
\* samples, the window 1..10 of the documentation and its reverse, and the
\* short windows [5] and [1, 2] of the documentation
Windows ==
  UNION {[1..n -> Samples] : n \in 0..MaxLen}
    \cup {[k \in 1..10 |-> k], [k \in 1..10 |-> 11 - k]}
    \cup {<<5>>, <<1, 2>>}

InitAvg ==
  /\ InitTransport
  /\ InitSamples
  /\ arr \in Windows
  /\ avg = NoAvg

\* avergearray(arr, number) with number the length of the window
ApplyAvg ==
  /\ ~avg.done
  /\ avg' = avergearray(arr, Len(arr))
  /\ UNCHANGED <<pc, retTo, transmit, de, re, rx, request, wire, elapsed,
                 ES_SLAVE_ID, esPHSoilValue, i, test_id, attempt, found, arr,
                 events>>
  /\ UNCHANGED histVars /\ UNCHANGED cycleHist /\ UNCHANGED ringVars /\ UNCHANGED credit

NextAvg == ApplyAvg

SpecAvg == InitAvg /\ [][NextAvg]_vars

\* ------------------------------------------------------------------------
\* Reference definitions the properties are stated with
\* ------------------------------------------------------------------------

IsPrefix(a, b) == Len(a) <= Len(b) /\ a = SubSeq(b, 1, Len(a))

\* the events of one attempt, in order: transmit enable, 8 bytes, flush,
\* receive enable, receive wait
AttemptEvents ==
  <<"txen", "write", "write", "write", "write", "write", "write", "write",
    "write", "flush", "rxen", "wait">>

\* where the firmware is between setRS485Mode(true) and setRS485Mode(false)
TransmitPcs == {"try_settle", "try_write", "try_flush", "try_hold", "try_rxen",
                "read_settle", "read_write", "read_flush", "read_hold",
                "read_rxen"}

\* inside a call of setRS485Mode
ModePcs == {"mode_de", "mode_re"}

\* the receive waits and the returns of the three functions
WaitPcs == {"try_start", "try_wait", "try_check", "read_start", "read_wait",
            "read_check", "read_drain"}
ReturnPcs == {"try_ret", "test_done", "read_ret", "idle"}

\* the standard Modbus CRC16 in the parametrised form of the CRC catalogue:
\* width 16, polynomial 0x8005, initial value 0xFFFF, input and output
\* reflected, no final XOR. Every input byte is bit-reversed and XORed into
\* the high byte of the register, the register is shifted left 8 times,
\* XORing 0x8005 whenever a 1 is shifted out, and the final register is
\* bit-reversed (0xA001 is 0x8005 bit-reversed).
RECURSIVE Reflect(_, _)
Reflect(v, n) ==
  IF n = 0 THEN 0 ELSE (v % 2) * Pow2(n - 1) + Reflect(v \div 2, n - 1)

RECURSIVE RefShift(_, _)
RefShift(reg, k) ==
  IF k = 0 THEN reg
  ELSE IF reg >= 32768 THEN RefShift(BitXor((reg * 2) % 65536, 32773), k - 1)
  ELSE RefShift(reg * 2, k - 1)

RECURSIVE RefFrom(_, _, _)
RefFrom(reg, data, pos) ==
  IF pos > Len(data) THEN reg
  ELSE RefFrom(RefShift(BitXor(reg, Reflect(data[pos], 8) * 256), 8),
               data, pos + 1)

StandardCRC16(data) == Reflect(RefFrom(65535, data, 1), 16)

\* the address the request of the attempt in progress is for
RequestAddress == IF pc = "try_flush" THEN test_id ELSE ES_SLAVE_ID

\* the 8th request byte has just been written
RequestSent == pc \in {"try_flush", "read_flush"}

\* sum, least and greatest sample of a window
RECURSIVE SeqSum(_)
SeqSum(a) == IF a = <<>> THEN 0 ELSE Head(a) + SeqSum(Tail(a))
SeqMin(a) == CHOOSE m \in {a[k] : k \in DOMAIN a} : \A k \in DOMAIN a : m <= a[k]
SeqMax(a) == CHOOSE m \in {a[k] : k \in DOMAIN a} : \A k \in DOMAIN a : m >= a[k]

\* the discovery has returned
DiscoveryDone == pc = "test_done"

\* the candidates up to and including the k-th
Upto(k) == SubSeq(slave_ids_to_try, 1, k)

\* a step of the firmware that leaves the check of line 194
LeavesCheck == pc = "read_check" /\ pc' /= pc

\* ------------------------------------------------------------------------
\* Properties
\* ------------------------------------------------------------------------

\* C1: DE or RE is HIGH only between the setRS485Mode(true) call and the
\* end of the setRS485Mode(false) call that bracket the writing of one
\* request; in every receive wait and at every return of tryESSlaveID,
\* testESCommunication and readESPHSoilSensor both lines are LOW.
C1_DirectionInvariant ==
  /\ (de = "HIGH" \/ re = "HIGH") => pc \in TransmitPcs \cup ModePcs
  /\ (pc \in ModePcs /\ (de = "HIGH" \/ re = "HIGH"))
       => retTo \in {"try_settle", "try_start", "read_settle", "read_start"}
  /\ pc \in {"try_settle", "try_write", "try_flush", "try_hold", "read_settle",
             "read_write", "read_flush", "read_hold"}
       => (de = "HIGH" /\ re = "HIGH")
  /\ pc \in WaitPcs \cup ReturnPcs => (de = "LOW" /\ re = "LOW")

C1_Witness ==
  /\ pc = "read_ret"
  /\ attempt = 2
  /\ outcome = "timeout"
  /\ de = "LOW"
  /\ re = "LOW"

\* C2: within one attempt the events are, in this order, transmit enable,
\* the 8 request bytes, flush, receive enable, receive wait: a byte is
\* written only with both lines HIGH, the wait runs only with both lines LOW
\* and after the whole request (exactly the 8 bytes of request[]) was
\* written and flushed, and no attempt writes more than one request.
C2_Ordering ==
  /\ pc \in TransmitPcs \cup WaitPcs \cup {"try_ret", "read_ret"}
       => IsPrefix(events, AttemptEvents)
  /\ pc \in {"try_write", "read_write"}
       => /\ de = "HIGH" /\ re = "HIGH"
          /\ events = SubSeq(AttemptEvents, 1, 1 + Len(wire))
  /\ pc \in WaitPcs \cup {"try_ret", "read_ret"}
       => /\ Len(events) >= 11
          /\ wire = request
          /\ Len(wire) = 8
  /\ pc \in {"try_wait", "read_wait"}
       => (events = AttemptEvents /\ de = "LOW" /\ re = "LOW")
  /\ IsPrefix(wire, request)

C2_Witness ==
  /\ pc = "read_wait"
  /\ elapsed = ReadTimeout
  /\ events = AttemptEvents
  /\ Len(wire) = 8

\* C3: when the discovery has returned and a byte arrived in the probe of
\* the k-th candidate c and in no other probe, ES_SLAVE_ID is c and the
\* probes made are exactly those of the first k candidates, in list order.
C3_DiscoveryDeterminism ==
  DiscoveryDone =>
    \A k \in 1..NumCandidates :
      heardIn = {slave_ids_to_try[k]} =>
        /\ ES_SLAVE_ID = slave_ids_to_try[k]
        /\ probed = Upto(k)

C3_Witness ==
  /\ DiscoveryDone
  /\ heardIn = {16}
  /\ ES_SLAVE_ID = 16
  /\ probed = <<1, 2, 3, 16>>

\* C4: when the discovery has returned and no byte arrived in any probe,
\* all 8 candidates were probed in list order and ES_SLAVE_ID is what it was
\* when the discovery started, the default 0x02.
C4_DiscoveryFailureKeepsAddress ==
  (DiscoveryDone /\ heardIn = {}) =>
    /\ probed = slave_ids_to_try
    /\ ES_SLAVE_ID = idBefore
    /\ ES_SLAVE_ID = DefaultSlaveID

C4_Witness ==
  /\ DiscoveryDone
  /\ heardIn = {}
  /\ Len(probed) = NumCandidates
  /\ i = NumCandidates

\* C5 as claimed: a read attempt whose wait loop was left at the deadline
\* with fewer than 7 bytes available reports a timeout and leaves
\* esPHSoilValue as it was.
C5_TimeoutAtDeadline ==
  (pc = "read_ret" /\ deadlineHit) =>
    (outcome = "timeout" /\ esPHSoilValue = valBefore)

\* C5 as amended: a read attempt that finds fewer than 7 bytes available at
\* the test of line 194, made after the wait loop, reports a timeout and
\* leaves esPHSoilValue as it was; a timeout is reported only after the wait
\* loop was left at the deadline.
C5_TimeoutKeepsValue ==
  [][/\ ((LeavesCheck /\ Len(rx) < expectedBytes)
           => (outcome' = "timeout" /\ esPHSoilValue' = esPHSoilValue))
      /\ (outcome' = "timeout"
           => (deadlineHit' /\ esPHSoilValue' = valBefore'))]_vars

C5_Witness ==
  /\ pc = "read_ret"
  /\ outcome = "timeout"
  /\ deadlineHit
  /\ valBefore = 32768 - 65536
  /\ esPHSoilValue = valBefore

\* C6: a read attempt that takes 7 bytes whose byte 0 is not ES_SLAVE_ID or
\* whose byte 1 is not 0x03 reports an invalid response and leaves
\* esPHSoilValue as it was, whatever the other bytes are.
C6_MismatchKeepsValue ==
  [][/\ ((LeavesCheck /\ Len(rx) >= expectedBytes
            /\ (rx[1] /= ES_SLAVE_ID \/ rx[2] /= ReadHolding))
           => (outcome' = "invalid" /\ esPHSoilValue' = esPHSoilValue))
      /\ (outcome' = "invalid" => esPHSoilValue' = valBefore')]_vars

C6_Witness ==
  /\ pc = "read_ret"
  /\ outcome = "invalid"
  /\ valBefore = 32768 - 65536
  /\ esPHSoilValue = valBefore

\* C7 as claimed: a read attempt that takes 7 bytes with byte 0 =
\* ES_SLAVE_ID and byte 1 = 0x03 sets esPHSoilValue to (256 * b3 + b4) / 100
\* for every pair of payload bytes b3, b4.
C7_DecodeBigEndian ==
  [][(LeavesCheck /\ Len(rx) >= expectedBytes
        /\ rx[1] = ES_SLAVE_ID /\ rx[2] = ReadHolding)
       => (outcome' = "decoded" /\ esPHSoilValue' = 256 * rx[4] + rx[5])]_vars

\* C8: the request a probe or a read attempt has written is the 8 bytes
\* addr, 0x03, 0x00, 0x00, 0x00, 0x01, crc & 0xFF, crc >> 8 with crc the
\* standard Modbus CRC16 of the first 6; for address 0x02 it is
\* 02 03 00 00 00 01 84 39.
C8_RequestFrame ==
  RequestSent =>
    LET head == <<RequestAddress, ReadHolding, 0, 0, 0, 1>>
        crc  == StandardCRC16(head)
    IN  /\ wire = head \o <<crc % 256, crc \div 256>>
        /\ calculateModbusCRC(head, 6) = crc
        /\ RequestAddress = 2 => wire = <<2, 3, 0, 0, 0, 1, 132, 57>>
        /\ RequestAddress = 2 => crc = 14724

C8_Witness ==
  /\ pc = "read_flush"
  /\ ES_SLAVE_ID = 2
  /\ wire = <<2, 3, 0, 0, 0, 1, 132, 57>>

\* C9: calculateModbusCRC over all 8 bytes of a request a probe or a read
\* attempt has written is 0, and what calculateModbusCRC returns for the
\* first 6 bytes and for all 8 lies in 0..0xFFFF.
C9_CrcSelfValidation ==
  RequestSent =>
    /\ calculateModbusCRC(wire, 8) = 0
    /\ calculateModbusCRC(wire, 6) \in 0..65535
    /\ wire[7] + 256 * wire[8] = calculateModbusCRC(wire, 6)

C9_Witness ==
  /\ pc = "try_flush"
  /\ test_id = 80
  /\ Len(wire) = 8
  /\ calculateModbusCRC(wire, 8) = 0

\* C10: for a window of n >= 5 samples the total avergearray divides is the
\* sum of all samples less the least and the greatest of them, and the
\* divisor is n - 2, whatever the order of the samples; 1..10 gives 44 / 8.
C10_TrimmedMean ==
  (avg.done /\ Len(arr) >= 5) =>
    /\ avg.amount = SeqSum(arr) - SeqMin(arr) - SeqMax(arr)
    /\ avg.divisor = Len(arr) - 2
    /\ arr = [k \in 1..10 |-> k] => (avg.amount = 44 /\ avg.divisor = 8)

C10_Witness ==
  /\ avg.done
  /\ arr = <<1023, 0, 512, 1, 0>>
  /\ avg.amount = 513
  /\ avg.divisor = 3

\* C11: for a window of 1 to 4 samples avergearray returns the sum of all
\* the samples divided by their number with the fraction dropped, no sample
\* left out: [5] gives 5 and [1, 2] gives 1.
C11_SmallWindowMean ==
  (avg.done /\ Len(arr) \in 1..4) =>
    /\ avg.divisor = 1
    /\ avg.amount = SeqSum(arr) \div Len(arr)
    /\ avg.amount * Len(arr) <= SeqSum(arr)
    /\ SeqSum(arr) < (avg.amount + 1) * Len(arr)
    /\ arr = <<5>> => avg.amount = 5
    /\ arr = <<1, 2>> => avg.amount = 1

C11_Witness ==
  /\ avg.done
  /\ arr = <<1023, 1, 1, 0>>
  /\ avg.amount = 256
  /\ avg.divisor = 1

\* the step with which a call of readSensors returns: the break of line 328
\* after an attempt, or the exit of the loop with attempt = 3
CycleBreak == pc = "read_ret" /\ pc' = "idle"
CycleExhausted == pc = "retry_loop" /\ pc' = "idle"

\* the attempt that has just returned obtained a reading greater than zero
AttemptGotReading == outcome = "decoded" /\ esPHSoilValue > 0

\* C12: in every call of readSensors, also one that follows a call with a
\* successful reading, the read is attempted at least once and at most 3
\* times; the loop is left before the 3rd attempt only after an attempt of
\* this call obtained a reading greater than zero, and while no attempt of
\* this call has obtained one a further attempt is made.
C12_RetryPolicy ==
  [][/\ (CycleBreak => (attempt + 1 \in 1..MaxAttempts))
     /\ (CycleExhausted => (attempt = MaxAttempts))
     /\ (CycleBreak => AttemptGotReading)
     /\ ((pc = "read_ret" /\ pc' /= pc /\ ~AttemptGotReading
           /\ attempt + 1 < MaxAttempts) => (pc' = "retry_loop"))]_vars

\* C13: when a call of readSensors begins with esPHSoilValue = 0 and every
\* attempt it makes decodes a valid reply whose register is 0, no attempt
\* is followed by the break, the call returns only after 3 attempts, and
\* esPHSoilValue is 0 when it returns.
C13_ZeroIsFailure ==
  [][/\ ((pc = "read_ret" /\ allZero /\ pc' /= pc) => (pc' = "retry_loop"))
     /\ (((CycleBreak \/ CycleExhausted) /\ allZero) =>
           (attempt = MaxAttempts /\ esPHSoilValue = 0 /\ esPHSoilValue' = 0))
     /\ ((pc = "read_ret" /\ allZero) =>
           (outcome = "decoded" /\ esPHSoilValue = 0))]_vars

C13_Witness ==
  /\ pc = "retry_loop"
  /\ attempt = MaxAttempts
  /\ allZero
  /\ esPHSoilValue = 0

\* C14: when a read attempt reports a timeout with 1 to 6 bytes in the
\* receive buffer, the buffer is empty at the step with which
\* readESPHSoilSensor returns, every one of those bytes has been read and
\* dropped by then, and no later attempt takes one of them into the reply
\* it tests and decodes.
C14_TimeoutDiscards ==
  [][/\ ((pc = "read_check" /\ pc' = "read_drain") =>
           (Len(rx) < expectedBytes /\ rx' = rx /\ stale' = Len(rx)))
     /\ ((pc = "read_drain" /\ pc' = "read_ret" /\ partial) =>
           (rx' = <<>> /\ stale' = 0))
     /\ ((LeavesCheck /\ pc' = "read_ret") => (stale = 0))]_vars

C14_Witness ==
  /\ pc = "read_ret"
  /\ outcome = "timeout"
  /\ partial
  /\ stale = 0
  /\ rx = <<>>

\* the first byte of the request is about to be written
FirstWrite == pc \in {"try_write", "read_write"} /\ wire = <<>>

BeforeRelease == pc \in {"try_rxen", "read_rxen"}

\* transmit enable is asserted: DE and RE are both high
TransmitEnabled == de = "HIGH" /\ re = "HIGH"

\* C16 as stated: in every transmit, of a probe and of a read attempt
\* alike, transmit enable has been asserted for at least 10 ms when the
\* first request byte is written, and after the flush it stays asserted for
\* a settle delay before it is de-asserted.
C16_SettleTenMs ==
  /\ FirstWrite => (TransmitEnabled /\ settled >= 10)
  /\ BeforeRelease => (TransmitEnabled /\ settled > 0)

\* C16 as amended: transmit enable has been asserted for at least 10 ms in
\* a probe and for at least 5 ms in a read attempt when the first request
\* byte is written, and after the flush it stays asserted for 10 ms in a
\* probe and for 5 ms in a read attempt before it is de-asserted.
C16_SettlePerPath ==
  /\ (pc = "try_write" /\ wire = <<>>) =>
       (TransmitEnabled /\ settled >= ProbeSettleDelay /\ settled >= 10)
  /\ (pc = "read_write" /\ wire = <<>>) =>
       (TransmitEnabled /\ settled >= ReadSettleDelay /\ settled >= 5)
  /\ (pc = "try_rxen") => (TransmitEnabled /\ settled >= ProbeHoldDelay)
  /\ (pc = "read_rxen") => (TransmitEnabled /\ settled >= ReadHoldDelay)
  /\ (pc \in {"try_flush", "try_hold", "read_flush", "read_hold"}) =>
       TransmitEnabled

C16_Witness ==
  /\ pc = "read_rxen"
  /\ Len(wire) = 8
  /\ TransmitEnabled
  /\ settled = 5

\* ------------------------------------------------------------------------
\* The test and decoding of a reply (lines 194-217) on replies of 7 bytes
\* ------------------------------------------------------------------------

\* what a reply carries in its bytes 5-6 when its CRC is right: the CRC of
\* its first 5 bytes, low byte first
ReplyCrc(head) ==
  LET crc == calculateModbusCRC(head, 5) IN <<crc % 256, crc \div 256>>

\* replies of 7 bytes to a read of the device at id: from id or from a
\* stranger, with function 0x03 or the exception 0x83, with byte count 0, 2
\* or 4, carrying 0x0000, 0x02BC or 0x8000, with the right CRC or a wrong one
Replies(id) ==
  {<<b0, b1, b2, d[1], d[2]>> \o c :
     b0 \in {id, 127}, b1 \in {ReadHolding, 131}, b2 \in {0, 2, 4},
     d \in {<<0, 0>>, <<2, 188>>, <<128, 0>>},
     c \in {<<0, 0>>, <<255, 255>>}}
  \cup
  {<<b0, b1, b2, d[1], d[2]>> \o ReplyCrc(<<b0, b1, b2, d[1], d[2]>>) :
     b0 \in {id, 127}, b1 \in {ReadHolding, 131}, b2 \in {0, 2, 4},
     d \in {<<0, 0>>, <<2, 188>>, <<128, 0>>}}

\* a read attempt whose wait loop has just ended with a reply of 7 bytes in
\* the buffer (line 194), for a confirmed address and a last reading
InitDecode ==
  /\ InitSamples
  /\ arr = <<>>
  /\ avg = NoAvg
  /\ pc = "read_check"
  /\ retTo = "read_start"
  /\ transmit = FALSE
  /\ de = "LOW"
  /\ re = "LOW"
  /\ ES_SLAVE_ID \in {1, 2, 80}
  /\ esPHSoilValue \in {0, 700}
  /\ rx \in Replies(ES_SLAVE_ID)
  /\ request = BuildRequest(ES_SLAVE_ID)
  /\ wire = request
  /\ elapsed = 0
  /\ i = 0
  /\ test_id = 0
  /\ attempt = 0
  /\ found = FALSE
  /\ probed = <<>>
  /\ idBefore = ES_SLAVE_ID
  /\ heardIn = {}
  /\ valBefore = esPHSoilValue
  /\ outcome = "none"
  /\ events = AttemptEvents
  /\ deadlineHit = FALSE
  /\ allZero = (esPHSoilValue = 0)
  /\ partial = FALSE
  /\ stale = 0
  /\ settled = 0
  /\ response = <<>>
  /\ credit = PassesPerByte

NextDecode == ReadDecoded \/ ReadInvalid

SpecDecode == InitDecode /\ [][NextDecode]_vars

\* the replies of 7 bytes that agree with resp on bytes 0, 1, 3 and 4
SameFields(resp) ==
  {<<resp[1], resp[2], b2, resp[4], resp[5], c1, c2>> :
     b2 \in {0, 2, 4, 255}, c1 \in {0, 57, 255}, c2 \in {0, 132, 255}}

\* what lines 209-217 make of the reply resp in the current state
DecodeOf(resp) ==
  IF ValidReply(resp)
    THEN [value |-> PhRaw(resp), outcome |-> "decoded"]
    ELSE [value |-> esPHSoilValue, outcome |-> "invalid"]

\* the CRC bytes of the reply resp are not the CRC of its first 5 bytes
WrongCrc(resp) == SubSeq(resp, 6, 7) /= ReplyCrc(SubSeq(resp, 1, 5))

\* C17: what a read attempt makes of a reply of 7 bytes, the value it
\* leaves in esPHSoilValue and whether it accepts the reply, is what it
\* makes of every reply that agrees with it on bytes 0, 1, 3 and 4 and has
\* any byte count and any CRC bytes; a reply with a wrong CRC whose address
\* and function code match is accepted and its bytes 3-4 become the value.
C17_CrcAndCountIgnored ==
  [][(LeavesCheck /\ Len(rx) >= expectedBytes) =>
       /\ \A v \in SameFields(ReadBytes(rx)) :
            DecodeOf(v) = [value |-> esPHSoilValue', outcome |-> outcome']
       /\ (WrongCrc(ReadBytes(rx)) /\ rx[1] = ES_SLAVE_ID
             /\ rx[2] = ReadHolding) =>
            (outcome' = "decoded" /\ esPHSoilValue' = PhRaw(ReadBytes(rx)))]_vars

C17_Witness ==
  /\ pc = "read_ret"
  /\ response = <<2, 3, 4, 2, 188, 255, 255>>
  /\ WrongCrc(response)
  /\ valBefore = 0
  /\ outcome = "decoded"
  /\ esPHSoilValue = 700

\* the addresses of slave_ids_to_try[]
CandidateSet == {slave_ids_to_try[k] : k \in 1..NumCandidates}

\* a read attempt has written at least the first byte of its request
ReadRequestStarted ==
  /\ pc \in {"read_write", "read_flush", "read_hold", "read_rxen"}
  /\ Len(wire) >= 1

\* C18: ES_SLAVE_ID is always one of the 8 candidate addresses; it changes
\* only at the return of a probe that detected a response, to the address
\* that probe was sent to, never in readESPHSoilSensor and never after a
\* probe that detected nothing; byte 0 of every request a read attempt
\* writes is the current ES_SLAVE_ID.
C18_ConfirmedAddress ==
  [][/\ ES_SLAVE_ID \in CandidateSet
     /\ ES_SLAVE_ID' \in CandidateSet
     /\ (ES_SLAVE_ID' /= ES_SLAVE_ID) =>
          (/\ pc = "try_ret"
           /\ found
           /\ test_id \in heardIn
           /\ probed /= <<>>
           /\ test_id = probed[Len(probed)]
           /\ ES_SLAVE_ID' = test_id)
     /\ (pc = "try_ret" /\ ~found /\ pc' /= pc) =>
          (ES_SLAVE_ID' = ES_SLAVE_ID)
     /\ ReadRequestStarted' => (wire'[1] = ES_SLAVE_ID')]_vars

C18_Witness ==
  /\ pc = "read_flush"
  /\ ES_SLAVE_ID = 16
  /\ wire[1] = 16
  /\ Len(wire) = 8

\* ------------------------------------------------------------------------
\* readSensors, the pH sampling loop (lines 268-278)
\* ------------------------------------------------------------------------

\* the sketch is idle after a discovery on a silent bus
InitRing ==
  /\ InitSamples
  /\ arr = <<>>
  /\ avg = NoAvg
  /\ pc = "idle"
  /\ retTo = "try_start"
  /\ transmit = FALSE
  /\ de = "LOW"
  /\ re = "LOW"
  /\ rx = <<>>
  /\ request = <<>>
  /\ wire = <<>>
  /\ elapsed = 0
  /\ ES_SLAVE_ID = DefaultSlaveID
  /\ esPHSoilValue = 0
  /\ i = 0
  /\ test_id = 0
  /\ attempt = 0
  /\ found = FALSE
  /\ probed = <<>>
  /\ idBefore = DefaultSlaveID
  /\ heardIn = {}
  /\ valBefore = 0
  /\ outcome = "none"
  /\ events = <<>>
  /\ deadlineHit = FALSE
  /\ allZero = FALSE
  /\ partial = FALSE
  /\ stale = 0
  /\ settled = 0
  /\ response = <<>>
  /\ credit = PassesPerByte

\* what analogRead(PH_PIN) may return for the write after k writes: either
\* end of the 10 bit range at every 16th write, else a reading that differs
\* from write to write
Reading(k) == IF k % 16 = 0 THEN {0, 1023} ELSE {(37 * k) % 1024}

\* pHArray as avergearray(pHArray, ArrayLenth) reads it, arr[0] first
PhWindow(a) == [k \in 1..ArrayLenth |-> a[k - 1]]

WrapIndexMut(n) == IF n = ArrayLenth + 1 THEN 0 ELSE n

\* line 270: if (pHArrayIndex == ArrayLenth) pHArrayIndex = 0;
WrapIndex(n) == IF n = ArrayLenth THEN 0 ELSE n

\* readSensors is called: int i = 0 (line 268)
EnterSampling ==
  /\ pc = "idle"
  /\ pc' = "ph_loop"
  /\ sample_i' = 0
  /\ UNCHANGED <<retTo, transmit, de, re, rx, request, wire, elapsed,
                 ES_SLAVE_ID, esPHSoilValue, i, test_id, attempt, found,
                 events, arr, avg, pHArray, pHArrayIndex, samples>>
  /\ UNCHANGED histVars /\ UNCHANGED cycleHist /\ UNCHANGED credit

\* lines 269-277: one pass of the loop: the write, the wrap of the index,
\* avergearray(pHArray, ArrayLenth), delay(1000), i++
PhSample ==
  /\ pc = "ph_loop"
  /\ sample_i < SamplesPerCall
  /\ Len(samples) < MaxWrites
  /\ \E v \in Reading(Len(samples)) :
       /\ pHArray' = [pHArray EXCEPT ![pHArrayIndex] = v]
       /\ samples' = Append(samples, v)
  /\ pHArrayIndex' = WrapIndex(pHArrayIndex + 1)
  /\ arr' = PhWindow(pHArray')
  /\ avg' = avergearray(PhWindow(pHArray'), ArrayLenth)
  /\ sample_i' = sample_i + 1
  /\ UNCHANGED <<pc, retTo, transmit, de, re, rx, request, wire, elapsed,
                 ES_SLAVE_ID, esPHSoilValue, i, test_id, attempt, found,
                 events>>
  /\ UNCHANGED histVars /\ UNCHANGED cycleHist /\ UNCHANGED credit

\* i = 10: the loop is left; what follows in readSensors (lines 280-330)
\* leaves pHArray and pHArrayIndex alone
LeaveSampling ==
  /\ pc = "ph_loop"
  /\ ~(sample_i < SamplesPerCall)
  /\ pc' = "idle"
  /\ sample_i' = 0
  /\ UNCHANGED <<retTo, transmit, de, re, rx, request, wire, elapsed,
                 ES_SLAVE_ID, esPHSoilValue, i, test_id, attempt, found,
                 events, arr, avg, pHArray, pHArrayIndex, samples>>
  /\ UNCHANGED histVars /\ UNCHANGED cycleHist /\ UNCHANGED credit

NextRing == EnterSampling \/ PhSample \/ LeaveSampling

SpecRing == InitRing /\ [][NextRing]_vars

\* the write, counted from 1, that last wrote slot j when k writes were made
LastWriteTo(j, k) == j + 1 + ArrayLenth * ((k - j - 1) \div ArrayLenth)

\* C19: after k writes pHArrayIndex is k mod 40 and lies in 0..39, also
\* whenever pHArray is passed to avergearray; pHArray has the slots 0..39
\* and no other; slot j holds the sample of the last write to it, so the
\* buffer holds the min(k, 40) most recent samples, and a slot not written
\* yet holds 0.
C19_RingBuffer ==
  LET k == Len(samples)
  IN  /\ pHArrayIndex = k % ArrayLenth
      /\ pHArrayIndex \in 0..(ArrayLenth - 1)
      /\ DOMAIN pHArray = 0..(ArrayLenth - 1)
      /\ \A j \in 0..(ArrayLenth - 1) :
           pHArray[j] = IF j < k THEN samples[LastWriteTo(j, k)] ELSE 0
      /\ \A w \in 1..k :
           (w > k - ArrayLenth) => (pHArray[(w - 1) % ArrayLenth] = samples[w])
      /\ avg.done => (arr = PhWindow(pHArray) /\ avg.divisor = ArrayLenth - 2)

C19_Witness ==
  /\ Len(samples) = 85
  /\ pHArrayIndex = 5
  /\ pHArray[4] = samples[85]
  /\ pHArray[5] = samples[46]
  /\ samples[81] = 1023
  /\ avg.done

\* ------------------------------------------------------------------------
\* The firmware running: the processor executes the statement it is at
\* ------------------------------------------------------------------------

\* the steps of the firmware other than the two that build a request
FirmwareStep ==
  \/ SetModeDE \/ SetModeRE
  \/ SetupModbusSensors \/ SetupTest
  \/ TestNext \/ TestFail \/ TestFound \/ TestMiss \/ TestReturn
  \/ TryClear \/ TryTxEnable \/ TrySettle \/ TryWrite
  \/ TryFlush \/ TryHold \/ TryRxEnable \/ TryStart \/ TryWait \/ TryCheck
  \/ ReadSensors \/ RetryNext \/ RetryExhausted \/ RetryBreak \/ RetryAgain
  \/ ReadClear \/ ReadTxEnable \/ ReadSettle \/ ReadWrite
  \/ ReadFlush \/ ReadHold \/ ReadRxEnable \/ ReadStart \/ ReadWait
  \/ ReadDecoded \/ ReadInvalid \/ ReadTimedOut \/ ReadDrain

\* the statements that build a request; TryBuild and ReadBuild are enabled
\* exactly there and are the only steps that leave them
BuildPcs == {"try_build", "read_build"}

\* the firmware keeps executing: no statement is left pending for ever.
\* Nothing is asked of the bus, which may stay silent or send whenever the
\* receiver is enabled (within the line rate while a clearing loop runs).
SpecLive ==
  /\ Spec
  /\ WF_vars(FirmwareStep)
  /\ []<>(pc \notin BuildPcs)

\* C20: whatever the bus does, the sketch is again and again back between
\* two calls of readSensors, so the call of testESCommunication, every
\* probe and every call of readESPHSoilSensor that was begun has returned;
\* a discovery makes 8 probes at most, and a receive wait does not go on
\* past its deadline of 500 ms (probe) or 1000 ms (read).
C20_Termination ==
  /\ []<>(pc = "idle")
  /\ [][/\ Len(probed') <= NumCandidates
        /\ i' <= NumCandidates
        /\ (pc' = "try_wait" => elapsed' <= ProbeTimeout)
        /\ (pc' = "read_wait" => elapsed' <= ReadTimeout)]_vars

C20_Witness ==
  /\ pc = "read_ret"
  /\ outcome = "timeout"
  /\ deadlineHit
  /\ partial
  /\ attempt = 2

====
